---- MODULE Spec2Model ----
(***************************************************************************)
(* Telemetry layer of the UCTRONICS display utility                        *)
(* (hardware/rpiInfo/rpiInfo.c, first revision in the file, lines 1-372,   *)
(* configured by hardware/rpiInfo/rpiInfo.h).                              *)
(*                                                                         *)
(* Every public function is a read of host state (files under /proc and    *)
(* /sys, sysconf, gethostname, getifaddrs, statvfs) followed by            *)
(* arithmetic.  The host state is drawn by Init, one family of host state  *)
(* at a time; one action per public function applies the function to the  *)
(* host state and records what it returned.                                *)
(*                                                                         *)
(* The file holds two later definitions of get_sd_memory and               *)
(* get_hard_disk_memory (lines 554-576 and 808-821, 672-695 and 887-903);  *)
(* a call is answered by the first definition and, beside it, by the later *)
(* two.  The Shutdown Monitor and the Refresh Scheduler of the display     *)
(* application around the telemetry layer are modelled from their          *)
(* specification.                                                          *)
(*                                                                         *)
(* Numbers.  C doubles are modelled as exact rationals num/den with        *)
(* den > 0.  The 1-minute load average is held in hundredths (the kernel   *)
(* prints it as %lu.%02lu), temperatures in millidegrees as the sysfs file *)
(* holds them.  Byte counts of the root filesystem are held in MiB.        *)
(* For the temperature the rational value and the double agree on every    *)
(* integer reading: a value k + 1/2 is a double, and every other value is  *)
(* at least 1/5000 away from one.  For the load bucket the double can      *)
(* fall one bucket short of the rational value at an exact tie; rounding   *)
(* is monotone, so the order of two buckets is never affected.             *)
(***************************************************************************)
EXTENDS Integers, Sequences, FiniteSets, TLC

VARIABLES
    cfg,        \* build configuration: the macros of rpiInfo.h
    loadavg,    \* /proc/loadavg: can it be opened, does %lf parse, 1-min load
    nprocs,     \* sysconf(_SC_NPROCESSORS_ONLN)
    thermal,    \* the two thermal_zone0/temp files: readable?, millidegrees C
    uts,        \* gethostname(): return code and what it left in the buffer
    ifaddrs,    \* getifaddrs(): return code and the interface list
    heap,       \* which of the allocations of the next call succeed
    rootfs,     \* statvfs("/"): does it succeed, and the struct it fills
    meminfo,    \* /proc/meminfo: can it be opened, what each fscanf yields
    cpu_ret,    \* what the last get_cpu_message() call returned
    temp_ret,   \* what the last get_temperature() call returned
    ip_ret,     \* what the last get_ip_address() call returned
    ip_trace,   \* what that call obtained and released, in order
    disk_ret,   \* the last get_hard_disk_memory() call: return code, outputs
    disk_args,  \* the last get_hard_disk_memory() call: which pointers were NULL
    disk_later, \* that call as the two later definitions in the file answer it
    mem_ret,    \* the last get_cpu_memory() call: the caller's two floats
    sd_ret,     \* the last get_sd_memory() call: the caller's two uint32_t
    sd_later,   \* that call as the two later definitions in the file answer it
    log,        \* history: the results each function returned on each host state
    again,      \* history: a function was called on a host state a second time,
                \* after a call of it on another host state
    gpio,       \* the button line: 1 while pressed (the active level), else 0
    stable,     \* sample periods the line has kept its level, up to HoldTicks + 1
    sm,         \* Shutdown Monitor: its state and the shutdown requests emitted
    long_presses, \* history: presses held longer than the hold duration
    rs,         \* Refresh Scheduler: state, error streak, exit code, work done
    outcomes    \* history: what the frame submission of each cycle met

\* The host state the functions read, and what each function leaves behind.
host == <<cfg, loadavg, nprocs, thermal, uts, ifaddrs, heap, rootfs, meminfo>>
cpu_out == <<cpu_ret>>
temp_out == <<temp_ret>>
ip_out == <<ip_ret, ip_trace>>
disk_out == <<disk_ret, disk_args, disk_later>>
mem_out == <<mem_ret>>
sd_out == <<sd_ret, sd_later>>

history == <<log, again>>

telemetry == <<host, cpu_out, temp_out, ip_out, disk_out, mem_out, sd_out, history>>

\* The display application around the telemetry layer.
monitor == <<gpio, stable, sm, long_presses>>
scheduler == <<rs, outcomes>>
display == <<monitor, scheduler>>

vars == <<telemetry, display>>

(***************************************************************************)
(* rpiInfo.h: configuration macros                                         *)
(***************************************************************************)
CELSIUS == 0
FAHRENHEIT == 1
IP_DISPLAY_OPEN == 0
IP_DISPLAY_CLOSE == 1

\* The two switches a build selects (TEMPERATURE_TYPE, IP_SWITCH).
Configs == [TEMPERATURE_TYPE : {CELSIUS, FAHRENHEIT},
            IP_SWITCH : {IP_DISPLAY_OPEN, IP_DISPLAY_CLOSE}]

(***************************************************************************)
(* Bounds of the model                                                     *)
(***************************************************************************)
MaxLoadCenti == 820     \* largest 1-minute load average, in hundredths
MaxCores == 4           \* largest online core count
MilliWindow == 1200     \* half-width of each window of thermal readings
MaxMilli == 100000000   \* the extreme thermal readings are -MaxMilli, MaxMilli
MaxShortName == 2       \* host names over HostBytes are enumerated up to this length
MaxNameSlack == 20      \* long host names fall short of the buffer by at most this
MaxIfaces == 2          \* longest interface list getifaddrs returns
MaxBlockMiB == 2        \* largest filesystem block size, in MiB

(***************************************************************************)
(* Arithmetic helpers                                                      *)
(***************************************************************************)
\* (int) / (uint8_t) of a non-negative rational num/den: truncation.
Trunc(num, den) == num \div den

\* C conversion of an int to uint8_t.
U8(x) == x % 256

NoCall == [called |-> FALSE, value |-> 0]
Returned(v) == [called |-> TRUE, value |-> v]

(***************************************************************************)
(* get_cpu_message                                                         *)
(***************************************************************************)
LoadavgFiles ==
    {[open |-> FALSE, parsed |-> FALSE, la1 |-> 0],
     [open |-> TRUE, parsed |-> FALSE, la1 |-> 0]}
    \cup {[open |-> TRUE, parsed |-> TRUE, la1 |-> l] : l \in 0..MaxLoadCenti}

CoreCounts == (-1)..MaxCores       \* sysconf returns -1 on error

\* la1 with the initialisation dropped: a failed read leaves a stale load.
read_la1_stale(f) == IF f.open /\ f.parsed THEN f.la1 ELSE 100

\* Lines 321-328: la1 = 0.0; overwritten only by a successful fscanf("%lf").
read_la1(f) == IF f.open /\ f.parsed THEN f.la1 ELSE 0

\* Line 330: if (cores < 1) cores = 1;
floor_cores(c) == IF c < 1 THEN 1 ELSE c

\* The ratio without the division by the core count.
load_ratio_raw(la1, cores) == [num |-> la1, den |-> 100]

\* Lines 332-334: ratio = la1 / (double)cores, clamped into [0.0, 4.0].
\* la1 is in hundredths, so the ratio is la1 / (100 * cores).
load_ratio(la1, cores) ==
    LET num == la1
        den == 100 * cores
    IN  IF num < 0 THEN [num |-> 0, den |-> 1]
        ELSE IF num > 4 * den THEN [num |-> 4, den |-> 1]
        ELSE [num |-> num, den |-> den]

\* The scale factor written with integer division: 255 / 4 = 63.
bucket_of_int_scale(r) ==
    LET b == Trunc(2 * r.num * 63 + r.den, 2 * r.den)
    IN  U8(IF b < 0 THEN 0 ELSE IF b > 255 THEN 255 ELSE b)

\* Lines 336-339: bucket = (int)(ratio * (255.0 / 4.0) + 0.5), clamped into
\* 0..255 and returned as uint8_t.
\* ratio * 255/4 + 1/2 = (2 * num * 255 + 4 * den) / (8 * den).
bucket_of(r) ==
    LET b == Trunc(2 * r.num * 255 + 4 * r.den, 8 * r.den)
    IN  U8(IF b < 0 THEN 0 ELSE IF b > 255 THEN 255 ELSE b)

\* Lines 313-340, the whole function on a given host state.
cpu_message(f, n) == bucket_of(load_ratio(read_la1(f), floor_cores(n)))

get_cpu_message ==
    /\ cpu_ret' = Returned(cpu_message(loadavg, nprocs))
    /\ UNCHANGED <<display, host, temp_out, ip_out, disk_out, mem_out, sd_out>>

(***************************************************************************)
(* get_temperature                                                         *)
(***************************************************************************)
\* Readings around the points where the result changes regime (0 F, 0 C,
\* 255 F, 255 C, all in millidegrees C), and two extreme ones.
MilliReadings ==
    UNION {(c - MilliWindow)..(c + MilliWindow) : c \in {-17778, 0, 123889, 255000}}
    \cup {-MaxMilli, MaxMilli}

Unreadable == [ok |-> FALSE, milli |-> 0]
ThermalFile(S) == {Unreadable} \cup {[ok |-> TRUE, milli |-> m] : m \in S}

\* Lines 125-148 with strtol (lines 295, 299): 0 when the first line of the
\* file is read, -errno otherwise; the line parsed as a decimal long.
read_first_line(file) == IF file.ok THEN 0 ELSE -1

\* Lines 290-300: milli = 0; the first readable file of the two sets it.
read_milli(th) ==
    IF read_first_line(th.zone0) = 0 THEN th.zone0.milli
    ELSE IF read_first_line(th.virt) = 0 THEN th.virt.milli
    ELSE 0

\* Lines 302-305: t = milli / 1000.0; under FAHRENHEIT t = t * 9 / 5 + 32.
to_unit(milli, unit) ==
    IF unit = FAHRENHEIT
    THEN [num |-> 9 * milli + 32 * 5000, den |-> 5000]
    ELSE [num |-> milli, den |-> 1000]

\* The clamp with its upper half missing.
clamp_temp_low_only(t) ==
    IF t.num < 0 THEN [num |-> 0, den |-> 1] ELSE t

\* Lines 306-307: if (t < 0.0) t = 0.0; if (t > 255.0) t = 255.0;
clamp_temp(t) ==
    IF t.num < 0 THEN [num |-> 0, den |-> 1]
    ELSE IF t.num > 255 * t.den THEN [num |-> 255, den |-> 1]
    ELSE t

\* Line 309: return (uint8_t)(t + 0.5);   t + 1/2 = (2 num + den) / (2 den)
round_u8(t) == U8(Trunc(2 * t.num + t.den, 2 * t.den))

\* A failed read reported as the bottom of the range instead of as 0 C.
temperature_floor_on_failure(th, unit) ==
    IF read_first_line(th.zone0) # 0 /\ read_first_line(th.virt) # 0
    THEN 0
    ELSE round_u8(clamp_temp(to_unit(read_milli(th), unit)))

\* Lines 284-310, the whole function on a given host state.
temperature(th, unit) == round_u8(clamp_temp(to_unit(read_milli(th), unit)))

get_temperature ==
    /\ temp_ret' = Returned(temperature(thermal, cfg.TEMPERATURE_TYPE))
    /\ UNCHANGED <<display, host, cpu_out, ip_out, disk_out, mem_out, sd_out>>

(***************************************************************************)
(* Strings: a C string is the sequence of its bytes before the NUL         *)
(***************************************************************************)
Unknown == <<117, 110, 107, 110, 111, 119, 110>>       \* "unknown"
Node1 == <<110, 111, 100, 101, 49>>                    \* "node1"
ColonSpace == <<58, 32>>                               \* ": "

Take(str, n) == SubSeq(str, 1, IF Len(str) < n THEN Len(str) ELSE n)
Rep(c, n) == [i \in 1..n |-> c]

\* A char* : NULL or a string.
Null == [null |-> TRUE, str |-> <<>>]
Ptr(str) == [null |-> FALSE, str |-> str]

\* strdup / malloc-and-fill: NULL when the allocation fails.
Alloc(ok, str) == IF ok THEN Ptr(str) ELSE Null

\* Decimal text of an octet, as inet_ntop prints it.
Dec(n) ==
    IF n < 10 THEN <<48 + n>>
    ELSE IF n < 100 THEN <<48 + (n \div 10), 48 + (n % 10)>>
    ELSE <<48 + (n \div 100), 48 + ((n \div 10) % 10), 48 + (n % 10)>>

\* inet_ntop(AF_INET, ...): dotted decimal.
inet_ntop(a) == Dec(a[1]) \o <<46>> \o Dec(a[2]) \o <<46>> \o Dec(a[3]) \o <<46>> \o Dec(a[4])

(***************************************************************************)
(* get_ip_address and its helpers                                          *)
(***************************************************************************)
HOSTBUF == 256              \* char hostname[256]
INET_ADDRSTRLEN == 16       \* char buf[INET_ADDRSTRLEN]
CUSTOM_ADDRESS == 2
IPADDRESS_TYPE == 2         \* rpiInfo.h: IPADDRESS_TYPE CUSTOM_ADDRESS

\* Bytes host names are built from: a z A 1 - ` { and a byte above 127.
HostBytes == {97, 122, 65, 49, 45, 96, 123, 233}

RECURSIVE SeqsUpTo(_, _)
SeqsUpTo(S, n) ==
    IF n = 0 THEN {<<>>}
    ELSE LET shorter == SeqsUpTo(S, n - 1)
         IN  shorter \cup {Append(q, c) : q \in {x \in shorter : Len(x) = n - 1}, c \in S}

\* What gethostname can leave in the 256-byte buffer: short names, "node1",
\* "unknown", and names that fill the buffer or nearly so (the longest one
\* fills all 256 bytes and leaves no room for the NUL).
HostNames ==
    SeqsUpTo(HostBytes, MaxShortName)
    \cup {Node1, Unknown}
    \cup {Rep(104, HOSTBUF - k) : k \in 0..MaxNameSlack}

UtsStates == [rc : {0}, name : HostNames] \cup [rc : {-1}, name : {<<>>, Node1}]

\* One struct ifaddrs: ifa_name (or NULL), ifa_addr (NULL, or its family and
\* for AF_INET its address), and whether inet_ntop succeeds on it.
Iface(name, family, addr, ok) ==
    [ifa_name |-> name, family |-> family, sin_addr |-> addr, ntop_ok |-> ok]

IfaceEntries ==
    {Iface("end0", "AF_INET", a, ok) : a \in {<<10, 0, 0, 15>>, <<192, 168, 100, 200>>},
                                       ok \in BOOLEAN}
    \cup {Iface("lo", "AF_INET", <<127, 0, 0, 1>>, TRUE),
          Iface("end0", "AF_INET6", <<0, 0, 0, 0>>, TRUE),
          Iface("end0", "NULL", <<0, 0, 0, 0>>, TRUE),
          Iface("NULL", "AF_INET", <<10, 0, 0, 15>>, TRUE)}

IfaddrsStates ==
    [rc : {0}, list : SeqsUpTo(IfaceEntries, MaxIfaces)]
    \cup [rc : {-1}, list : {<<>>}]

\* The three allocations of get_ip_address: strdup(buf) in the lookup,
\* malloc(needed), and the strdup(hostname) of either configuration.
HeapStates == [strdup_ip : BOOLEAN, malloc_result : BOOLEAN, strdup_host : BOOLEAN]

\* Lines 73-84.
pick_iface == IF IPADDRESS_TYPE = CUSTOM_ADDRESS THEN "end0" ELSE "eth0"

\* Lines 104-119: the loop from entry i on; the first AF_INET entry of the
\* name that inet_ntop renders is strdup'ed and returned.
RECURSIVE scan_ifaddrs(_, _, _, _)
scan_ifaddrs(list, i, ifname, hp) ==
    IF i > Len(list) THEN Null
    ELSE LET ifa == list[i]
         IN  IF ifa.ifa_name = "NULL" \/ ifa.family = "NULL"
                THEN scan_ifaddrs(list, i + 1, ifname, hp)
             ELSE IF ifa.family # "AF_INET"
                THEN scan_ifaddrs(list, i + 1, ifname, hp)
             ELSE IF ifa.ifa_name # ifname
                THEN scan_ifaddrs(list, i + 1, ifname, hp)
             ELSE IF ~ifa.ntop_ok
                THEN scan_ifaddrs(list, i + 1, ifname, hp)
             ELSE Alloc(hp.strdup_ip, inet_ntop(ifa.sin_addr))

\* Lines 87-123.
lookup_ipv4_for_iface(ifname, ifs, hp) ==
    IF ifs.rc = -1 \/ Len(ifs.list) = 0 THEN Null
    ELSE scan_ifaddrs(ifs.list, 1, ifname, hp)

\* The upper-casing with both bounds exclusive.
upcase_ascii_exclusive(str) ==
    [i \in 1..Len(str) |-> IF str[i] > 97 /\ str[i] < 122 THEN str[i] - 97 + 65 ELSE str[i]]

\* Lines 151-160: every byte in 'a'..'z' becomes c - 'a' + 'A'.
upcase_ascii(str) ==
    [i \in 1..Len(str) |-> IF str[i] >= 97 /\ str[i] <= 122 THEN str[i] - 97 + 65 ELSE str[i]]

\* The buffer used as gethostname left it, without the forced terminator.
read_hostname_unterminated(u) == IF u.rc # 0 THEN Unknown ELSE u.name

\* Lines 173-178: "unknown" when gethostname fails; hostname[255] = 0.
read_hostname(u) ==
    Take(IF u.rc # 0 THEN Unknown ELSE u.name, HOSTBUF - 1)

\* Lines 193-197: snprintf(result, needed, "%s: %s", hostname, ip) into a
\* buffer of needed = strlen(hostname) + 2 + strlen(ip) + 1 bytes.
format_identity(hostname, ip) ==
    LET needed == Len(hostname) + 2 + Len(ip) + 1
    IN  Take(hostname \o ColonSpace \o ip, needed - 1)

\* The previous revision's result (lines 533-544): the address alone.
ip_address_only(c, u, ifs, hp) ==
    LET ip == lookup_ipv4_for_iface(pick_iface, ifs, hp)
    IN  IF c.IP_SWITCH = IP_DISPLAY_CLOSE
        THEN Alloc(hp.strdup_host, upcase_ascii(read_hostname(u)))
        ELSE IF ~ip.null THEN ip ELSE Alloc(hp.strdup_host, read_hostname(u))

\* Lines 164-207, the whole function on a given host state.
ip_address(c, u, ifs, hp) ==
    LET hostname == read_hostname(u)
    IN  IF c.IP_SWITCH = IP_DISPLAY_CLOSE
        THEN LET result == Alloc(hp.strdup_host, hostname)
             IN  IF ~result.null THEN Ptr(upcase_ascii(result.str)) ELSE result
        ELSE LET ip == lookup_ipv4_for_iface(pick_iface, ifs, hp)
                 result == IF ip.null THEN Null
                           ELSE Alloc(hp.malloc_result, format_identity(hostname, ip.str))
             IN  IF ~ip.null /\ ~result.null THEN result
                 ELSE Alloc(hp.strdup_host, hostname)

\* Lines 104-122 as resources: the loop from entry i on releases the list
\* at line 117 before the strdup of line 118, or at line 121 after the last
\* entry.  An allocation is in the trace when it succeeded.
RECURSIVE scan_events(_, _, _, _)
scan_events(list, i, ifname, hp) ==
    IF i > Len(list) THEN <<"freeifaddrs">>
    ELSE LET ifa == list[i]
         IN  IF \/ ifa.ifa_name = "NULL" \/ ifa.family = "NULL"
                \/ ifa.family # "AF_INET"
                \/ ifa.ifa_name # ifname
                \/ ~ifa.ntop_ok
             THEN scan_events(list, i + 1, ifname, hp)
             ELSE <<"freeifaddrs">> \o (IF hp.strdup_ip THEN <<"strdup(buf)">> ELSE <<>>)

\* Lines 87-123 as resources: nothing to release when getifaddrs fails or
\* hands back no list.
lookup_events(ifname, ifs, hp) ==
    IF ifs.rc = -1 \/ Len(ifs.list) = 0 THEN <<>>
    ELSE <<"getifaddrs">> \o scan_events(ifs.list, 1, ifname, hp)

\* The function with free(ip) moved under the test of result at line 197.
ip_events_leak(c, u, ifs, hp) ==
    LET strdup_hostname == IF hp.strdup_host THEN <<"strdup(hostname)">> ELSE <<>>
    IN  IF c.IP_SWITCH = IP_DISPLAY_CLOSE THEN strdup_hostname
        ELSE lookup_events(pick_iface, ifs, hp)
             \o (IF lookup_ipv4_for_iface(pick_iface, ifs, hp).null THEN strdup_hostname
                 ELSE IF hp.malloc_result THEN <<"malloc", "free(ip)">>
                 ELSE strdup_hostname)

\* Lines 164-207 as resources.
ip_events(c, u, ifs, hp) ==
    LET strdup_hostname == IF hp.strdup_host THEN <<"strdup(hostname)">> ELSE <<>>
    IN  IF c.IP_SWITCH = IP_DISPLAY_CLOSE THEN strdup_hostname
        ELSE lookup_events(pick_iface, ifs, hp)
             \o (IF lookup_ipv4_for_iface(pick_iface, ifs, hp).null THEN strdup_hostname
                 ELSE IF hp.malloc_result THEN <<"malloc", "free(ip)">>
                 ELSE <<"free(ip)">> \o strdup_hostname)

get_ip_address ==
    /\ ip_ret' = Returned(ip_address(cfg, uts, ifaddrs, heap))
    /\ ip_trace' = ip_events(cfg, uts, ifaddrs, heap)
    /\ UNCHANGED <<display, host, cpu_out, temp_out, disk_out, mem_out, sd_out>>

(***************************************************************************)
(* get_hard_disk_memory                                                    *)
(*                                                                         *)
(* Block sizes are whole MiB and byte counts are held in MiB, so that a    *)
(* filesystem of 64 TiB and more fits the model's integers; on such byte   *)
(* counts (x + (1ULL << 29)) >> 30 is (x_MiB + 512) \div 1024.             *)
(***************************************************************************)
\* C conversion to uint16_t.
U16(x) == x % 65536

\* Block counts around whole and half gigabytes (at 1 MiB a block), from an
\* empty filesystem to ones beyond 65535 GB.
BlockMarks ==
    {g * 1024 + d : g \in {0, 1, 42, 100, 65535, 65536, 65600}, d \in {0, 511, 512}}

StatvfsFailed ==
    [ok |-> FALSE, f_frsize |-> 0, f_bsize |-> 0, f_blocks |-> 0, f_bfree |-> 0,
     f_bavail |-> 0]

\* <<f_blocks, f_bfree, f_bavail>> with f_bavail <= f_bfree <= f_blocks: the
\* root reserve is all of the free space or none of it.
BlockTriples ==
    {t \in BlockMarks \X BlockMarks \X BlockMarks :
        t[3] <= t[1] /\ t[2] \in {t[3], t[1]}}

\* A struct statvfs; f_frsize may be 0.
RootFsStates ==
    {StatvfsFailed}
    \cup {[ok |-> TRUE, f_frsize |-> fr, f_bsize |-> bs, f_blocks |-> t[1],
           f_bfree |-> t[2], f_bavail |-> t[3]] :
             fr \in 0..MaxBlockMiB, bs \in 1..MaxBlockMiB, t \in BlockTriples}

\* The caller's two uint16_t before any call: not yet written.
DiskNoCall ==
    [called |-> FALSE, rc |-> 0, wrote |-> FALSE, diskMemSize |-> 43690,
     useMemSize |-> 43690]

\* Lines 364-367: block, total, avail and used, in MiB.
disk_usage(fs) ==
    LET block == IF fs.f_frsize # 0 THEN fs.f_frsize ELSE fs.f_bsize
        total == fs.f_blocks * block
        avail == fs.f_bavail * block
    IN  [total |-> total, used |-> total - avail]

\* Lines 369-370: (uint16_t)((x + (1ULL << 29)) >> 30), x in MiB.
round_gb(x) == U16((x + 512) \div 1024)

\* The function with the zero writes of lines 358-359 left out.
hard_disk_memory_no_zero(fs, dnull, unull, old) ==
    IF dnull \/ unull \/ ~fs.ok
    THEN [old EXCEPT !.called = TRUE, !.rc = 1, !.wrote = FALSE]
    ELSE [called |-> TRUE, rc |-> 0, wrote |-> TRUE,
          diskMemSize |-> round_gb(disk_usage(fs).total),
          useMemSize |-> round_gb(disk_usage(fs).used)]

\* Lines 346-372, the whole function on a given host state; dnull and unull
\* say which of the two output pointers is NULL, old is the caller's memory.
hard_disk_memory(fs, dnull, unull, old) ==
    IF dnull \/ unull
    THEN [old EXCEPT !.called = TRUE, !.rc = 1, !.wrote = FALSE]
    ELSE IF ~fs.ok
    THEN [called |-> TRUE, rc |-> 1, wrote |-> TRUE, diskMemSize |-> 0, useMemSize |-> 0]
    ELSE [called |-> TRUE, rc |-> 0, wrote |-> TRUE,
          diskMemSize |-> round_gb(disk_usage(fs).total),
          useMemSize |-> round_gb(disk_usage(fs).used)]

\* Lines 672-695, the second definition of the function in the file: the
\* statements of the first.
hard_disk_memory_rev2(fs, dnull, unull, old) ==
    IF dnull \/ unull
    THEN [old EXCEPT !.called = TRUE, !.rc = 1, !.wrote = FALSE]
    ELSE IF ~fs.ok
    THEN [called |-> TRUE, rc |-> 1, wrote |-> TRUE, diskMemSize |-> 0, useMemSize |-> 0]
    ELSE LET block == IF fs.f_frsize # 0 THEN fs.f_frsize ELSE fs.f_bsize
             total == fs.f_blocks * block
             avail == fs.f_bavail * block
             used == total - avail
         IN  [called |-> TRUE, rc |-> 0, wrote |-> TRUE,
              diskMemSize |-> U16((total + 512) \div 1024),
              useMemSize |-> U16((used + 512) \div 1024)]

\* Lines 887-903, the third definition: f_frsize with no fallback to f_bsize,
\* and x / (1024 * 1024 * 1024), here x_MiB \div 1024.
hard_disk_memory_rev3(fs, dnull, unull, old) ==
    IF dnull \/ unull
    THEN [old EXCEPT !.called = TRUE, !.rc = 1, !.wrote = FALSE]
    ELSE IF ~fs.ok
    THEN [called |-> TRUE, rc |-> 1, wrote |-> TRUE, diskMemSize |-> 0, useMemSize |-> 0]
    ELSE LET total == fs.f_blocks * fs.f_frsize
             freeb == fs.f_bavail * fs.f_frsize
             used == total - freeb
         IN  [called |-> TRUE, rc |-> 0, wrote |-> TRUE,
              diskMemSize |-> U16(total \div 1024),
              useMemSize |-> U16(used \div 1024)]

\* One call on the host state, answered by each definition the file holds:
\* disk_ret is the first definition's answer, disk_later the later two's.
get_hard_disk_memory ==
    \E dnull, unull \in BOOLEAN :
        /\ disk_ret' = hard_disk_memory(rootfs, dnull, unull, disk_ret)
        /\ disk_later' = <<hard_disk_memory_rev2(rootfs, dnull, unull, disk_later[1]),
                           hard_disk_memory_rev3(rootfs, dnull, unull, disk_later[2])>>
        /\ disk_args' = [dnull |-> dnull, unull |-> unull]
        /\ UNCHANGED <<display, host, cpu_out, temp_out, ip_out, mem_out, sd_out>>

(***************************************************************************)
(* get_sd_memory                                                           *)
(*                                                                         *)
(* Byte counts are whole MiB as above, so x / (1024ULL * 1024ULL) is the   *)
(* count itself, and every count of the model is below 2^32, where the     *)
(* conversion to uint32_t changes nothing.                                 *)
(***************************************************************************)
\* The caller's two uint32_t before any call: not yet written.
SdNoCall == [called |-> FALSE, wrote |-> FALSE, MemSize |-> 43690, freesize |-> 43690]

\* Lines 229-232: block, total, free_all and used, in MiB.
sd_usage(fs) ==
    LET block == IF fs.f_frsize # 0 THEN fs.f_frsize ELSE fs.f_bsize
        total == fs.f_blocks * block
        free_all == fs.f_bfree * block
    IN  [total |-> total, used |-> total - free_all]

\* Lines 216-242, the whole function; mnull and fnull say which of the two
\* output pointers is NULL, old is the caller's memory.
sd_memory(fs, mnull, fnull, old) ==
    IF mnull \/ fnull
    THEN [old EXCEPT !.called = TRUE, !.wrote = FALSE]
    ELSE IF fs.ok
    THEN [called |-> TRUE, wrote |-> TRUE, MemSize |-> sd_usage(fs).total,
          freesize |-> sd_usage(fs).used]
    ELSE [called |-> TRUE, wrote |-> TRUE, MemSize |-> 0, freesize |-> 0]

\* Lines 554-576, the second definition in the file: the statements of the
\* first.
sd_memory_rev2(fs, mnull, fnull, old) ==
    IF mnull \/ fnull
    THEN [old EXCEPT !.called = TRUE, !.wrote = FALSE]
    ELSE IF fs.ok
    THEN LET block == IF fs.f_frsize # 0 THEN fs.f_frsize ELSE fs.f_bsize
             total == fs.f_blocks * block
             free_all == fs.f_bfree * block
             used == total - free_all
         IN  [called |-> TRUE, wrote |-> TRUE, MemSize |-> total, freesize |-> used]
    ELSE [called |-> TRUE, wrote |-> TRUE, MemSize |-> 0, freesize |-> 0]

\* Lines 808-821, the third definition: f_frsize with no fallback to f_bsize,
\* and the free bytes in the second output.
sd_memory_rev3(fs, mnull, fnull, old) ==
    IF mnull \/ fnull
    THEN [old EXCEPT !.called = TRUE, !.wrote = FALSE]
    ELSE IF fs.ok
    THEN LET total == fs.f_blocks * fs.f_frsize
             freeb == fs.f_bfree * fs.f_frsize
         IN  [called |-> TRUE, wrote |-> TRUE, MemSize |-> total, freesize |-> freeb]
    ELSE [called |-> TRUE, wrote |-> TRUE, MemSize |-> 0, freesize |-> 0]

\* One call on the host state, answered by each definition the file holds:
\* sd_ret is the first definition's answer, sd_later the later two's.
get_sd_memory ==
    \E mnull, fnull \in BOOLEAN :
        /\ sd_ret' = sd_memory(rootfs, mnull, fnull, sd_ret)
        /\ sd_later' = <<sd_memory_rev2(rootfs, mnull, fnull, sd_later[1]),
                         sd_memory_rev3(rootfs, mnull, fnull, sd_later[2])>>
        /\ UNCHANGED <<display, host, cpu_out, temp_out, ip_out, disk_out, mem_out>>

(***************************************************************************)
(* get_cpu_memory                                                          *)
(*                                                                         *)
(* /proc/meminfo is held as the results of the successive                  *)
(* fscanf("%63s %ld %15s\n") calls on it: a record that scanned carries    *)
(* the key and the value of that call, one that did not ends the loop.     *)
(* A float is held as the number of 1/1024 MB it stands for, which is the  *)
(* kB value rounded to float: dividing a float by 1024.0f is exact.        *)
(***************************************************************************)
MaxMemRecords == 3      \* most fscanf results before the end of the file

MemKeys == {"MemTotal:", "MemFree:", "MemAvailable:"}

\* kB values: none, 1 MB, a 16 GB host, and one beyond the 24 bits of a float.
MemValues == {0, 1024, 16314384, 33554433}

NoScan == [scanned |-> FALSE, key |-> "", val |-> 0]

MemRecords == {NoScan} \cup [scanned : {TRUE}, key : MemKeys, val : MemValues]

MeminfoFiles ==
    {[open |-> FALSE, recs |-> <<>>]}
    \cup [open : {TRUE}, recs : SeqsUpTo(MemRecords, MaxMemRecords)]

\* The caller's two floats before any call: not yet written.
MemNoCall == [called |-> FALSE, wrote |-> FALSE, Totalram |-> -1, freeram |-> -1]

\* The spacing of floats at v >= 0: the least power of two q with v / q < 2^24.
RECURSIVE float_ulp(_, _)
float_ulp(v, q) == IF v \div q < 16777216 THEN q ELSE float_ulp(v, 2 * q)

\* (float)v of lines 279-280 for a long v >= 0: nearest float, ties to even.
to_float(v) ==
    LET q == float_ulp(v, 1)
        lo == v - (v % q)
        r == v % q
    IN  IF 2 * r < q THEN lo
        ELSE IF 2 * r > q THEN lo + q
        ELSE IF (lo \div q) % 2 = 0 THEN lo ELSE lo + q

\* Lines 268-275: the while loop, from the i-th fscanf on.
RECURSIVE scan_meminfo(_, _, _, _)
scan_meminfo(recs, i, memTotalKB, memAvailableKB) ==
    IF i > Len(recs) \/ ~recs[i].scanned
    THEN [memTotalKB |-> memTotalKB, memAvailableKB |-> memAvailableKB]
    ELSE LET t == IF recs[i].key = "MemTotal:" THEN recs[i].val ELSE memTotalKB
             a == IF recs[i].key = "MemTotal:" THEN memAvailableKB
                  ELSE IF recs[i].key = "MemAvailable:" THEN recs[i].val
                  ELSE memAvailableKB
         IN  IF t # 0 /\ a # 0
             THEN [memTotalKB |-> t, memAvailableKB |-> a]
             ELSE scan_meminfo(recs, i + 1, t, a)

\* The function with memTotalKB and memAvailableKB keeping what the last call
\* left in them, as static locals without lines 264-265 would.
cpu_memory_static(mi, tnull, fnull, old) ==
    IF tnull \/ fnull
    THEN [old EXCEPT !.called = TRUE, !.wrote = FALSE]
    ELSE IF ~mi.open
    THEN [called |-> TRUE, wrote |-> TRUE, Totalram |-> 0, freeram |-> 0]
    ELSE LET kb == IF old.wrote
                   THEN scan_meminfo(mi.recs, 1, old.Totalram, old.freeram)
                   ELSE scan_meminfo(mi.recs, 1, 0, 0)
         IN  [called |-> TRUE, wrote |-> TRUE,
              Totalram |-> to_float(kb.memTotalKB),
              freeram |-> to_float(kb.memAvailableKB)]

\* Lines 245-281, the whole function; tnull and fnull say which of the two
\* output pointers is NULL, old is the caller's memory.
cpu_memory(mi, tnull, fnull, old) ==
    IF tnull \/ fnull
    THEN [old EXCEPT !.called = TRUE, !.wrote = FALSE]
    ELSE IF ~mi.open
    THEN [called |-> TRUE, wrote |-> TRUE, Totalram |-> 0, freeram |-> 0]
    ELSE LET kb == scan_meminfo(mi.recs, 1, 0, 0)
         IN  [called |-> TRUE, wrote |-> TRUE,
              Totalram |-> to_float(kb.memTotalKB),
              freeram |-> to_float(kb.memAvailableKB)]

get_cpu_memory ==
    \E tnull, fnull \in BOOLEAN :
        /\ mem_ret' = cpu_memory(meminfo, tnull, fnull, mem_ret)
        /\ UNCHANGED <<display, host, cpu_out, temp_out, ip_out, disk_out, sd_out>>

(***************************************************************************)
(* Shutdown Monitor                                                        *)
(*                                                                         *)
(* The monitor is the display application's watch on the button line.  It  *)
(* samples the line once a sample period; time is counted in sample        *)
(* periods.  A level must persist DebounceTicks periods to be accepted as  *)
(* a press, and a press held longer than HoldTicks periods emits the       *)
(* shutdown request.                                                       *)
(***************************************************************************)
DebounceTicks == 3      \* the debounce window, in sample periods
HoldTicks == 12         \* the hold duration, in sample periods
MaxPresses == 4         \* most presses held beyond the hold duration in a run

MonitorIdle == [state |-> "Idle", requests |-> 0]

\* The monitor without its terminal state: it goes on sampling after firing.
sm_sample_rearming(m, level, held) ==
    IF level = 0 THEN [m EXCEPT !.state = "Idle"]
    ELSE IF held > HoldTicks
    THEN [state |-> "Fired", requests |-> m.requests + 1]
    ELSE IF held >= DebounceTicks
    THEN [m EXCEPT !.state = "Pressed"]
    ELSE [m EXCEPT !.state = "Debouncing"]

\* One sample of the line: its level, and for how long it has kept it.
\* Fired is terminal: no further sampling.  A released line discards the
\* press with nothing retained.
sm_sample(m, level, held) ==
    IF m.state = "Fired" THEN m
    ELSE IF level = 0 THEN [m EXCEPT !.state = "Idle"]
    ELSE IF held > HoldTicks
    THEN [state |-> "Fired", requests |-> m.requests + 1]
    ELSE IF held >= DebounceTicks
    THEN [m EXCEPT !.state = "Pressed"]
    ELSE [m EXCEPT !.state = "Debouncing"]

\* The line changes its level: a candidate edge.
gpio_edge ==
    /\ gpio = 0 => long_presses < MaxPresses
    /\ gpio' = 1 - gpio
    /\ stable' = 0
    /\ sm' = sm_sample(sm, gpio', 0)
    /\ UNCHANGED <<long_presses, scheduler, telemetry>>

\* A sample period passes with the line at its level.
sm_tick ==
    /\ stable <= HoldTicks
    /\ stable' = stable + 1
    /\ sm' = sm_sample(sm, gpio, stable')
    /\ long_presses' = IF gpio = 1 /\ stable' > HoldTicks
                       THEN long_presses + 1 ELSE long_presses
    /\ UNCHANGED <<gpio, scheduler, telemetry>>

(***************************************************************************)
(* Refresh Scheduler                                                       *)
(*                                                                         *)
(* One cycle pulls a snapshot, renders a frame and submits it to the       *)
(* Display Driver.  On BusError the cycle calls reset_and_init() once and  *)
(* submits no pixels; BusErrorThreshold cycles in a row with a BusError    *)
(* are fatal and end the process with a non-zero exit code.                *)
(***************************************************************************)
BusErrorThreshold == 5  \* N: consecutive failed cycles that are fatal
MaxCycles == 9          \* most cycles of a run

\* exit_code is -1 while the process runs.
SchedulerIdle ==
    [state |-> "Running", consecutive |-> 0, exit_code |-> -1, resets |-> 0,
     frames |-> 0]

\* The scheduler counting every failed cycle, a success not resetting the count.
rs_run_cycle_no_reset(r, outcome) ==
    IF outcome = "Ok"
    THEN [r EXCEPT !.frames = @ + 1]
    ELSE LET failed == r.consecutive + 1
         IN  [r EXCEPT !.resets = @ + 1,
                       !.consecutive = failed,
                       !.state = IF failed >= BusErrorThreshold THEN "Fatal" ELSE @,
                       !.exit_code = IF failed >= BusErrorThreshold THEN 1 ELSE @]

\* One cycle in Running whose submission meets outcome: a frame shown and
\* the streak cleared, or one reset_and_init(), no frame, and the streak one
\* longer, fatal at the threshold.
rs_run_cycle(r, outcome) ==
    IF outcome = "Ok"
    THEN [r EXCEPT !.frames = @ + 1, !.consecutive = 0]
    ELSE LET failed == r.consecutive + 1
         IN  [r EXCEPT !.resets = @ + 1,
                       !.consecutive = failed,
                       !.state = IF failed >= BusErrorThreshold THEN "Fatal" ELSE @,
                       !.exit_code = IF failed >= BusErrorThreshold THEN 1 ELSE @]

rs_cycle ==
    /\ rs.state = "Running"
    /\ Len(outcomes) < MaxCycles
    /\ \E outcome \in {"Ok", "BusError"} :
        /\ rs' = rs_run_cycle(rs, outcome)
        /\ outcomes' = Append(outcomes, outcome)
    /\ UNCHANGED <<monitor, telemetry>>

\* A termination signal: the scheduler stops and the process exits cleanly.
rs_stop ==
    /\ rs.state = "Running"
    /\ rs' = [rs EXCEPT !.state = "Stopping", !.exit_code = 0]
    /\ UNCHANGED <<outcomes, monitor, telemetry>>

(***************************************************************************)
(* Initial states and specifications                                       *)
(***************************************************************************)
\* rpiInfo.h as shipped: TEMPERATURE_TYPE FAHRENHEIT, IP_SWITCH IP_DISPLAY_OPEN.
HeaderConfig == [TEMPERATURE_TYPE |-> FAHRENHEIT, IP_SWITCH |-> IP_DISPLAY_OPEN]

\* An idle, healthy host: what every family of host state is when another
\* family is the one being varied.
IdleLoadavg == [open |-> TRUE, parsed |-> TRUE, la1 |-> 0]
IdleThermal == [zone0 |-> [ok |-> TRUE, milli |-> 45000], virt |-> Unreadable]

IdleUts == [rc |-> 0, name |-> Node1]
IdleIfaddrs == [rc |-> 0, list |-> <<Iface("end0", "AF_INET", <<10, 0, 0, 15>>, TRUE)>>]
IdleHeap == [strdup_ip |-> TRUE, malloc_result |-> TRUE, strdup_host |-> TRUE]

\* A 100 GB root filesystem with 58 GB available.
IdleRootFs ==
    [ok |-> TRUE, f_frsize |-> 1, f_bsize |-> 1, f_blocks |-> 102400,
     f_bfree |-> 59392, f_bavail |-> 59392]

\* MemTotal, MemFree and MemAvailable of a 16 GB host.
IdleMeminfo ==
    [open |-> TRUE,
     recs |-> <<[scanned |-> TRUE, key |-> "MemTotal:", val |-> 16314384],
                [scanned |-> TRUE, key |-> "MemFree:", val |-> 1024],
                [scanned |-> TRUE, key |-> "MemAvailable:", val |-> 1024]>>]

IdleNet ==
    /\ uts = IdleUts
    /\ ifaddrs = IdleIfaddrs
    /\ heap = IdleHeap

\* The public functions of the telemetry layer.
Functions ==
    {"get_ip_address", "get_cpu_message", "get_temperature", "get_cpu_memory",
     "get_sd_memory", "get_hard_disk_memory"}

\* The host state at the moment of a call.
HostNow ==
    [loadavg |-> loadavg, nprocs |-> nprocs, thermal |-> thermal, uts |-> uts,
     ifaddrs |-> ifaddrs, heap |-> heap, rootfs |-> rootfs, meminfo |-> meminfo]

\* A second host state: loaded, hot on the fallback sensor, without a host
\* name, at another address, short of memory for the identity string, with
\* statvfs failing and /proc/meminfo empty.
BusyHost ==
    [loadavg |-> [open |-> TRUE, parsed |-> TRUE, la1 |-> 250],
     nprocs |-> 4,
     thermal |-> [zone0 |-> Unreadable, virt |-> [ok |-> TRUE, milli |-> 61000]],
     uts |-> [rc |-> -1, name |-> <<>>],
     ifaddrs |-> [rc |-> 0,
                  list |-> <<Iface("end0", "AF_INET", <<192, 168, 100, 200>>, TRUE)>>],
     heap |-> [strdup_ip |-> TRUE, malloc_result |-> FALSE, strdup_host |-> TRUE],
     rootfs |-> StatvfsFailed,
     meminfo |-> [open |-> TRUE, recs |-> <<>>]]

IdleHost ==
    [loadavg |-> IdleLoadavg, nprocs |-> 1, thermal |-> IdleThermal, uts |-> IdleUts,
     ifaddrs |-> IdleIfaddrs, heap |-> IdleHeap, rootfs |-> IdleRootFs,
     meminfo |-> IdleMeminfo]

\* The host states a run moves between.
Hosts == {IdleHost, BusyHost}

NothingLogged == [f \in Functions |-> [h \in Hosts |-> {}]]

\* The history after function f returned result on the present host state.
Logged(f, result) ==
    IF HostNow \in Hosts
    THEN [log EXCEPT ![f][HostNow] = @ \cup {result}]
    ELSE log

\* The call of f that returns result is a second call on this host state,
\* after a call that returned something else.
Repeats(f, last) ==
    /\ HostNow \in Hosts
    /\ log[f][HostNow] # {}
    /\ last \notin log[f][HostNow]

NothingCalled ==
    /\ cpu_ret = NoCall
    /\ temp_ret = NoCall
    /\ ip_ret = NoCall
    /\ ip_trace = <<>>
    /\ disk_ret = DiskNoCall
    /\ disk_args = [dnull |-> FALSE, unull |-> FALSE]
    /\ disk_later = <<DiskNoCall, DiskNoCall>>
    /\ mem_ret = MemNoCall
    /\ sd_ret = SdNoCall
    /\ sd_later = <<SdNoCall, SdNoCall>>
    /\ log = NothingLogged
    /\ again = FALSE
    /\ gpio = 0
    /\ stable = 0
    /\ sm = MonitorIdle
    /\ long_presses = 0
    /\ rs = SchedulerIdle
    /\ outcomes = <<>>

InitCpu ==
    /\ cfg = HeaderConfig
    /\ loadavg \in LoadavgFiles
    /\ nprocs \in CoreCounts
    /\ thermal = IdleThermal
    /\ IdleNet
    /\ rootfs = IdleRootFs
    /\ meminfo = IdleMeminfo
    /\ NothingCalled

NextCpu == get_cpu_message /\ UNCHANGED history

SpecCpu == InitCpu /\ [][NextCpu]_vars

\* The primary file readable with any reading, or unreadable with the
\* fallback file in any state, or both readable with different readings.
InitTemp ==
    /\ cfg \in Configs
    /\ loadavg = IdleLoadavg
    /\ nprocs = 1
    /\ thermal \in [zone0 : ThermalFile(MilliReadings), virt : {Unreadable}]
                   \cup [zone0 : {Unreadable}, virt : ThermalFile(MilliReadings)]
                   \cup [zone0 : ThermalFile({-5000, 45000, 300000}),
                         virt : ThermalFile({50000})]
    /\ IdleNet
    /\ rootfs = IdleRootFs
    /\ meminfo = IdleMeminfo
    /\ NothingCalled

NextTemp == get_temperature /\ UNCHANGED history

SpecTemp == InitTemp /\ [][NextTemp]_vars

\* Every host name against a few interface lists, and every interface list
\* against a few host names.
IfaddrsFew ==
    {[rc |-> -1, list |-> <<>>], [rc |-> 0, list |-> <<>>], IdleIfaddrs,
     [rc |-> 0, list |-> <<Iface("end0", "AF_INET", <<192, 168, 100, 200>>, TRUE)>>]}
UtsFew ==
    {IdleUts, [rc |-> -1, name |-> <<>>], [rc |-> 0, name |-> Rep(104, HOSTBUF - 1)]}

InitIp ==
    /\ cfg \in [TEMPERATURE_TYPE : {FAHRENHEIT},
                 IP_SWITCH : {IP_DISPLAY_OPEN, IP_DISPLAY_CLOSE}]
    /\ loadavg = IdleLoadavg
    /\ nprocs = 1
    /\ thermal = IdleThermal
    /\ \/ uts \in UtsStates /\ ifaddrs \in IfaddrsFew
       \/ uts \in UtsFew /\ ifaddrs \in IfaddrsStates
    /\ heap \in HeapStates
    /\ rootfs = IdleRootFs
    /\ meminfo = IdleMeminfo
    /\ NothingCalled

NextIp == get_ip_address /\ UNCHANGED history

SpecIp == InitIp /\ [][NextIp]_vars

InitDisk ==
    /\ cfg = HeaderConfig
    /\ loadavg = IdleLoadavg
    /\ nprocs = 1
    /\ thermal = IdleThermal
    /\ IdleNet
    /\ rootfs \in RootFsStates
    /\ meminfo = IdleMeminfo
    /\ NothingCalled

NextDisk == get_hard_disk_memory /\ UNCHANGED history

SpecDisk == InitDisk /\ [][NextDisk]_vars

\* get_sd_memory reads the root filesystem get_hard_disk_memory reads.
NextSd == get_sd_memory /\ UNCHANGED history

SpecSd == InitDisk /\ [][NextSd]_vars

InitMem ==
    /\ cfg = HeaderConfig
    /\ loadavg = IdleLoadavg
    /\ nprocs = 1
    /\ thermal = IdleThermal
    /\ uts = IdleUts
    /\ ifaddrs = IdleIfaddrs
    /\ heap = IdleHeap
    /\ rootfs = IdleRootFs
    /\ meminfo \in MeminfoFiles
    /\ NothingCalled

NextMem == get_cpu_memory /\ UNCHANGED history

SpecMem == InitMem /\ [][NextMem]_vars

\* The whole telemetry layer: any host state of any family, any call at any
\* time.
Init == InitCpu \/ InitTemp \/ InitIp \/ InitDisk \/ InitMem

Next ==
    \/ get_cpu_message /\ UNCHANGED history
    \/ get_temperature /\ UNCHANGED history
    \/ get_ip_address /\ UNCHANGED history
    \/ get_hard_disk_memory /\ UNCHANGED history
    \/ get_cpu_memory /\ UNCHANGED history
    \/ get_sd_memory /\ UNCHANGED history

Spec == Init /\ [][Next]_vars

(***************************************************************************)
(* Calls in any order on a host whose state changes between them           *)
(***************************************************************************)
\* The host moves to another of its states; no function is running.
host_changes ==
    \E h \in Hosts \ {HostNow} :
        /\ loadavg' = h.loadavg
        /\ nprocs' = h.nprocs
        /\ thermal' = h.thermal
        /\ uts' = h.uts
        /\ ifaddrs' = h.ifaddrs
        /\ heap' = h.heap
        /\ rootfs' = h.rootfs
        /\ meminfo' = h.meminfo
        /\ UNCHANGED <<display, cfg, cpu_out, temp_out, ip_out, disk_out, mem_out, sd_out,
                       history>>

\* What a call of get_hard_disk_memory, get_cpu_memory and get_sd_memory
\* hands back: the return value and the two outputs.
DiskResult(r) == <<r.rc, r.diskMemSize, r.useMemSize>>
MemResult(r) == <<r.Totalram, r.freeram>>
SdResult(r) == <<r.MemSize, r.freesize>>

\* A call, and the history of it.  The calls of a run pass valid output
\* pointers: a call with a NULL pointer returns before it reads the host
\* (lines 225, 254, 351) and hands nothing back.
call_cpu_message ==
    /\ get_cpu_message
    /\ log' = Logged("get_cpu_message", cpu_ret'.value)
    /\ again' = (again \/ Repeats("get_cpu_message", cpu_ret.value))

call_temperature ==
    /\ get_temperature
    /\ log' = Logged("get_temperature", temp_ret'.value)
    /\ again' = (again \/ Repeats("get_temperature", temp_ret.value))

call_ip_address ==
    /\ get_ip_address
    /\ log' = Logged("get_ip_address", ip_ret'.value)
    /\ again' = (again \/ Repeats("get_ip_address", ip_ret.value))

call_hard_disk_memory ==
    /\ get_hard_disk_memory
    /\ disk_ret'.wrote
    /\ log' = Logged("get_hard_disk_memory", DiskResult(disk_ret'))
    /\ again' = (again \/ Repeats("get_hard_disk_memory", DiskResult(disk_ret)))

call_cpu_memory ==
    /\ get_cpu_memory
    /\ mem_ret'.wrote
    /\ log' = Logged("get_cpu_memory", MemResult(mem_ret'))
    /\ again' = (again \/ Repeats("get_cpu_memory", MemResult(mem_ret)))

call_sd_memory ==
    /\ get_sd_memory
    /\ sd_ret'.wrote
    /\ log' = Logged("get_sd_memory", SdResult(sd_ret'))
    /\ again' = (again \/ Repeats("get_sd_memory", SdResult(sd_ret)))

InitPure ==
    /\ cfg = HeaderConfig
    /\ loadavg = IdleLoadavg
    /\ nprocs = 1
    /\ thermal = IdleThermal
    /\ IdleNet
    /\ rootfs = IdleRootFs
    /\ meminfo = IdleMeminfo
    /\ NothingCalled

NextPure ==
    \/ call_cpu_message
    \/ call_temperature
    \/ call_ip_address
    \/ call_hard_disk_memory
    \/ call_cpu_memory
    \/ call_sd_memory
    \/ host_changes

SpecPure == InitPure /\ [][NextPure]_vars

(***************************************************************************)
(* The Shutdown Monitor on its own, the telemetry layer at rest            *)
(***************************************************************************)
NextMonitor ==
    \/ gpio_edge
    \/ sm_tick

SpecMonitor == InitPure /\ [][NextMonitor]_vars

(***************************************************************************)
(* The Refresh Scheduler on its own                                        *)
(***************************************************************************)
NextScheduler ==
    \/ rs_cycle
    \/ rs_stop

SpecScheduler == InitPure /\ [][NextScheduler]_vars

(***************************************************************************)
(* Properties of get_cpu_message                                           *)
(***************************************************************************)
\* load_ratio as the claims mean it: la1 / max(cores, 1), compared by
\* cross-multiplication.  RatioLeq(f1,n1,f2,n2): ratio of (f1,n1) <= ratio of (f2,n2).
Parsed(f) == f.open /\ f.parsed
RatioLeq(f1, n1, f2, n2) == f1.la1 * floor_cores(n2) <= f2.la1 * floor_cores(n1)

\* C1: the bucket is 0 at load ratio 0, 255 at every load ratio >= 4.0, and
\* non-decreasing in the load ratio: no host state with a smaller or equal
\* ratio yields a larger bucket than the one this call returned.
C1_BucketMonotone ==
    (cpu_ret.called /\ Parsed(loadavg)) =>
        /\ (loadavg.la1 = 0 => cpu_ret.value = 0)
        /\ (loadavg.la1 >= 400 * floor_cores(nprocs) => cpu_ret.value = 255)
        /\ \A f \in LoadavgFiles, n \in CoreCounts :
              (Parsed(f) /\ RatioLeq(f, n, loadavg, nprocs))
                  => cpu_message(f, n) <= cpu_ret.value

\* A call at ratio exactly 4.0 on two cores that returned the saturated bucket.
C1_Witness ==
    /\ cpu_ret.called /\ Parsed(loadavg)
    /\ nprocs = 2 /\ loadavg.la1 = 800
    /\ cpu_ret.value = 255

\* C2: at load ratio 2.0 on a 4-core host (1-minute load 8.00) the bucket is
\* within 1 of 127.
C2_RatioTwoOnFourCores ==
    (cpu_ret.called /\ Parsed(loadavg) /\ nprocs = 4 /\ loadavg.la1 = 800)
        => cpu_ret.value \in 126..128

C2_Witness ==
    /\ cpu_ret.called /\ Parsed(loadavg)
    /\ nprocs = 4 /\ loadavg.la1 = 800
    /\ cpu_ret.value = 128

\* C3: when /proc/loadavg cannot be opened or its first field does not
\* parse, the call returns 0 whatever sysconf reported.
C3_ZeroOnReadFailure ==
    (cpu_ret.called /\ ~Parsed(loadavg)) => cpu_ret.value = 0

\* A failed read on a host whose sysconf call failed too (-1 cores).
C3_Witness ==
    /\ cpu_ret.called /\ ~loadavg.open /\ nprocs = -1
    /\ cpu_ret.value = 0

(***************************************************************************)
(* Properties of get_temperature                                           *)
(***************************************************************************)
SomeReadable == thermal.zone0.ok \/ thermal.virt.ok
TheReading == IF thermal.zone0.ok THEN thermal.zone0.milli ELSE thermal.virt.milli

\* The reading in the configured unit, rounded to the nearest integer (ties
\* up), as an integer that may lie outside 0..255.
NearestInUnit(milli, unit) ==
    IF unit = FAHRENHEIT
    THEN (2 * (9 * milli + 160000) + 5000) \div 10000
    ELSE (2 * milli + 1000) \div 2000

ClampByte(x) == IF x < 0 THEN 0 ELSE IF x > 255 THEN 255 ELSE x

\* C4: for every millidegree reading the call returns the reading converted
\* to the configured unit, rounded to the nearest integer and clamped into
\* 0..255 (never the value modulo 256).
C4_RoundedAndClamped ==
    (temp_ret.called /\ SomeReadable) =>
        temp_ret.value = ClampByte(NearestInUnit(TheReading, cfg.TEMPERATURE_TYPE))

\* A Celsius reading of 256.000 C, which modulo 256 would be 0, returned as 255.
C4_Witness ==
    /\ temp_ret.called /\ SomeReadable
    /\ cfg.TEMPERATURE_TYPE = CELSIUS
    /\ TheReading = 256000
    /\ temp_ret.value = 255

\* C5 as claimed: with neither file readable the call returns the lowest
\* value of its output range, 0, under either unit.
C5_StaticMinimum ==
    (temp_ret.called /\ ~SomeReadable) => temp_ret.value = 0

\* C5 as amended: with neither file readable the call returns the same fixed
\* value on every call, 0 millidegrees in the configured unit: 0 under
\* CELSIUS (the lowest value of the range), 32 under FAHRENHEIT.
C5_StaticZeroCelsius ==
    (temp_ret.called /\ ~SomeReadable) =>
        temp_ret.value = (IF cfg.TEMPERATURE_TYPE = FAHRENHEIT THEN 32 ELSE 0)

\* A failed read under the Fahrenheit build.
C5_Witness ==
    /\ temp_ret.called /\ ~SomeReadable
    /\ cfg.TEMPERATURE_TYPE = FAHRENHEIT
    /\ temp_ret.value = 32

(***************************************************************************)
(* Properties of get_ip_address                                            *)
(***************************************************************************)
\* The host name the identity is built from: the placeholder when
\* gethostname failed, else the first 255 bytes of what it delivered.
EffectiveHostname ==
    IF uts.rc # 0 THEN Unknown
    ELSE IF Len(uts.name) > HOSTBUF - 1 THEN SubSeq(uts.name, 1, HOSTBUF - 1)
    ELSE uts.name

\* a-z replaced by A-Z, everything else kept.
Uppercased(str) == [i \in 1..Len(str) |-> IF str[i] \in 97..122 THEN str[i] - 32 ELSE str[i]]

\* Entries of the interface list that carry an IPv4 address of the
\* configured interface, and those of them inet_ntop renders.
ConfiguredAddrs ==
    {i \in 1..Len(ifaddrs.list) :
        ifaddrs.list[i].ifa_name = "end0" /\ ifaddrs.list[i].family = "AF_INET"}
UsableAddrs == {i \in ConfiguredAddrs : ifaddrs.list[i].ntop_ok}
FirstUsable == CHOOSE i \in UsableAddrs : \A j \in UsableAddrs : i <= j
WithAddr(i) == EffectiveHostname \o ColonSpace \o inet_ntop(ifaddrs.list[i].sin_addr)

IpReturnedString == ip_ret.called /\ ~ip_ret.value.null
IpStr == ip_ret.value.str

\* C6 as claimed: whatever gethostname, getifaddrs, inet_ntop and the
\* allocator do, the call returns a non-NULL string, and when gethostname
\* failed the host part of it is the placeholder "unknown" (upper-cased by
\* the IP-disabled configuration like any host name).
C6_NeverFails ==
    ip_ret.called =>
        /\ ~ip_ret.value.null
        /\ (uts.rc # 0 =>
               /\ Take(IpStr, Len(Unknown)) \in {Unknown, Uppercased(Unknown)}
               /\ (Len(IpStr) = Len(Unknown)
                     \/ SubSeq(IpStr, Len(Unknown) + 1, Len(Unknown) + 2) = ColonSpace))

C9_UppercaseHostname ==
    (IpReturnedString /\ cfg.IP_SWITCH = IP_DISPLAY_CLOSE) =>
        /\ Len(IpStr) = Len(EffectiveHostname)
        /\ \A i \in 1..Len(IpStr) :
              IpStr[i] = (IF EffectiveHostname[i] \in 97..122
                          THEN EffectiveHostname[i] - 32
                          ELSE EffectiveHostname[i])
        /\ upcase_ascii(IpStr) = IpStr

\* "node1" with IP display disabled gives "NODE1".
C9_Witness ==
    /\ IpReturnedString
    /\ cfg.IP_SWITCH = IP_DISPLAY_CLOSE
    /\ uts.rc = 0 /\ uts.name = Node1
    /\ IpStr = <<78, 79, 68, 69, 49>>

(***************************************************************************)
(* Properties of get_hard_disk_memory                                      *)
(***************************************************************************)
\* C10: after every successful call the reported used GB is at most the
\* reported total GB.
C10_UsedAtMostTotal ==
    (disk_ret.called /\ disk_ret.rc = 0) => disk_ret.useMemSize <= disk_ret.diskMemSize

(***************************************************************************)
(* Failure signalling of get_hard_disk_memory                              *)
(***************************************************************************)
\* C11: a call with two valid output pointers on a host where statvfs("/")
\* fails leaves 0 in both outputs and returns non-zero; the return value is 0
\* exactly when statvfs succeeded and neither pointer was NULL; and a return
\* value of 0 comes with both outputs written by that call.
C11_FailureSignal ==
    disk_ret.called =>
        /\ (~rootfs.ok /\ ~disk_args.dnull /\ ~disk_args.unull) =>
              /\ disk_ret.rc # 0
              /\ disk_ret.wrote
              /\ disk_ret.diskMemSize = 0
              /\ disk_ret.useMemSize = 0
        /\ disk_ret.rc = 0 <=> (rootfs.ok /\ ~disk_args.dnull /\ ~disk_args.unull)
        /\ disk_ret.rc = 0 => disk_ret.wrote

\* statvfs failed on a call with two valid pointers.
C11_Witness ==
    /\ disk_ret.called
    /\ ~rootfs.ok
    /\ ~disk_args.dnull /\ ~disk_args.unull
    /\ disk_ret.rc = 1
    /\ disk_ret.diskMemSize = 0

(***************************************************************************)
(* Properties of get_cpu_memory                                            *)
(***************************************************************************)
\* The fscanf results the loop can reach: those with no failed scan before.
Readable(i) ==
    /\ i \in 1..Len(meminfo.recs)
    /\ \A j \in 1..i : meminfo.recs[j].scanned

\* The kB values /proc/meminfo holds under a key.
ValuesOf(key) ==
    {meminfo.recs[i].val : i \in {j \in 1..Len(meminfo.recs) :
                                     Readable(j) /\ meminfo.recs[j].key = key}}

\* A read failure: the file does not open, or the line of one of the two keys
\* cannot be parsed.
ReadFailure ==
    \/ ~meminfo.open
    \/ ValuesOf("MemTotal:") = {}
    \/ ValuesOf("MemAvailable:") = {}

\* C12: a call with two valid pointers leaves 0 and 0 on a read failure, and
\* otherwise the MemTotal and MemAvailable values in kB, as floats, divided
\* by 1024.
C12_ZeroZeroOnReadFailure ==
    (mem_ret.called /\ mem_ret.wrote) =>
        IF ReadFailure
        THEN mem_ret.Totalram = 0 /\ mem_ret.freeram = 0
        ELSE /\ mem_ret.Totalram \in {to_float(v) : v \in ValuesOf("MemTotal:")}
             /\ mem_ret.freeram \in {to_float(v) : v \in ValuesOf("MemAvailable:")}

(***************************************************************************)
(* Properties of get_sd_memory                                             *)
(***************************************************************************)
\* The block size statvfs reports, and the used space of the root filesystem
\* in MB: total bytes less free bytes.
FsBlock == IF rootfs.f_frsize # 0 THEN rootfs.f_frsize ELSE rootfs.f_bsize
UsedMB == (rootfs.f_blocks - rootfs.f_bfree) * FsBlock

\* The three definitions of get_sd_memory in the file, in file order.
SdDefinitions == <<sd_ret, sd_later[1], sd_later[2]>>

\* C13: whichever definition of get_sd_memory answers a call that statvfs
\* serves, the second output is the used space in MB (total bytes less free
\* bytes) and is at most the first output.
C13_SecondOutputIsUsed ==
    \A d \in 1..3 :
        (SdDefinitions[d].called /\ SdDefinitions[d].wrote /\ rootfs.ok) =>
            /\ SdDefinitions[d].freesize = UsedMB
            /\ SdDefinitions[d].freesize <= SdDefinitions[d].MemSize

\* The same of the first two definitions only.
C13_FirstTwoReportUsed ==
    \A d \in 1..2 :
        (SdDefinitions[d].called /\ SdDefinitions[d].wrote /\ rootfs.ok) =>
            /\ SdDefinitions[d].freesize = UsedMB
            /\ SdDefinitions[d].freesize <= SdDefinitions[d].MemSize

(***************************************************************************)
(* Rounding of get_hard_disk_memory                                        *)
(***************************************************************************)
\* Total bytes of the root filesystem and the bytes not available to
\* unprivileged users, in MiB.
TotalMiB == rootfs.f_blocks * FsBlock
UsedMiB == (rootfs.f_blocks - rootfs.f_bavail) * FsBlock

\* x MiB in GB, rounded to the nearest integer, a half rounding up.
NearestGB(x) == CHOOSE g \in 0..(x \div 1024 + 1) : 2 * x - 1024 < 2 * g * 1024 /\ 2 * g * 1024 <= 2 * x + 1024

\* The three definitions of get_hard_disk_memory in the file, in file order.
DiskDefinitions == <<disk_ret, disk_later[1], disk_later[2]>>

\* C17: whichever definition of get_hard_disk_memory answers a call that
\* returns 0, the outputs are the total and the used space (total less
\* available to non-root users) in GB, rounded to the nearest integer with a
\* half rounding up.
C17_NearestGigabyte ==
    \A d \in 1..3 :
        (DiskDefinitions[d].called /\ DiskDefinitions[d].rc = 0) =>
            /\ DiskDefinitions[d].diskMemSize = NearestGB(TotalMiB)
            /\ DiskDefinitions[d].useMemSize = NearestGB(UsedMiB)

\* The same of the first two definitions, on filesystems whose rounded size
\* fits 16 bits.
C17_FirstTwoRoundBelow64TiB ==
    \A d \in 1..2 :
        (DiskDefinitions[d].called /\ DiskDefinitions[d].rc = 0
            /\ NearestGB(TotalMiB) < 65536) =>
            /\ DiskDefinitions[d].diskMemSize = NearestGB(TotalMiB)
            /\ DiskDefinitions[d].useMemSize = NearestGB(UsedMiB)

C15_OneShotShutdown ==
    /\ sm.requests = (IF long_presses > 0 THEN 1 ELSE 0)
    /\ sm.state = "Fired" <=> sm.requests = 1
    /\ (gpio = 1 /\ stable < DebounceTicks) => sm.state \in {"Debouncing", "Fired"}
    /\ sm.state = "Pressed" => (gpio = 1 /\ stable >= DebounceTicks)

\* The monitor has fired, and a later press is being held beyond the hold
\* duration.
C15_Witness ==
    /\ sm.state = "Fired"
    /\ sm.requests = 1
    /\ long_presses >= 2
    /\ gpio = 1 /\ stable > HoldTicks

(***************************************************************************)
(* Properties of the Refresh Scheduler                                     *)
(***************************************************************************)
\* The cycles so far that met a given outcome, and the BusError cycles in a
\* row at the end of the run.
CyclesWith(outcome) == Cardinality({i \in 1..Len(outcomes) : outcomes[i] = outcome})
Streak ==
    Cardinality({i \in 1..Len(outcomes) :
                    \A j \in i..Len(outcomes) : outcomes[j] = "BusError"})

\* C16: every cycle with a BusError has called reset_and_init() exactly once
\* and submitted no pixels, every other cycle has submitted its frame; the
\* scheduler is still running after a BusError short of the threshold; the
\* process has ended, with a non-zero exit code, exactly when the last
\* BusErrorThreshold cycles in a row met a BusError, a successful cycle
\* starting the count again.
C16_ResetSkipAndEscalate ==
    /\ rs.resets = CyclesWith("BusError")
    /\ rs.frames = CyclesWith("Ok")
    /\ rs.consecutive = Streak
    /\ rs.state = "Fatal" <=> Streak >= BusErrorThreshold
    /\ rs.state = "Fatal" => rs.exit_code > 0
    /\ rs.exit_code = -1 <=> rs.state = "Running"

\* A fatal end after an earlier streak of failures that a successful cycle
\* cleared.
C16_Witness ==
    /\ rs.state = "Fatal"
    /\ rs.exit_code = 1
    /\ rs.frames > 0
    /\ rs.resets > BusErrorThreshold

(***************************************************************************)
(* Resources of get_ip_address                                             *)
(***************************************************************************)
\* Where an event is in the trace of the last call, and how often.
At(e) == {i \in 1..Len(ip_trace) : ip_trace[i] = e}
Times(e) == Cardinality(At(e))

\* Allocations of the last call not freed when it returned.
Live == Times("strdup(buf)") + Times("malloc") + Times("strdup(hostname)") - Times("free(ip)")

\* C18: a call of get_ip_address releases the interface list once when
\* getifaddrs succeeded with a list, after obtaining it, and never otherwise;
\* it frees the IPv4 string once when the strdup of it succeeded, after the
\* strdup, and never otherwise; and on return the string it returns is the
\* only allocation of the call still live.
C18_ReleasedExactlyOnce ==
    ip_ret.called =>
        /\ Times("getifaddrs") =
             (IF cfg.IP_SWITCH = IP_DISPLAY_OPEN /\ ifaddrs.rc = 0 /\ ifaddrs.list # <<>>
              THEN 1 ELSE 0)
        /\ Times("freeifaddrs") = Times("getifaddrs")
        /\ \A i \in At("freeifaddrs") : \E j \in At("getifaddrs") : j < i
        /\ Times("strdup(buf)") <= 1
        /\ Times("free(ip)") = Times("strdup(buf)")
        /\ \A i \in At("free(ip)") : \E j \in At("strdup(buf)") : j < i
        /\ Live = (IF ip_ret.value.null THEN 0 ELSE 1)

\* The address was found and copied, the malloc of the identity failed: the
\* copy is freed and the host name returned instead.
C18_Witness ==
    /\ ip_ret.called
    /\ ip_trace = <<"getifaddrs", "freeifaddrs", "strdup(buf)", "free(ip)",
                    "strdup(hostname)">>
    /\ ~ip_ret.value.null

====
